---------------------------- MODULE Spec2Model ----------------------------
(***************************************************************************)
(* OrbitForge: the N-body simulation core (src-tauri/src).                 *)
(*                                                                         *)
(* Numbers.  Every f64 of the program is a fixed-point integer with SCALE  *)
(* units per 1.0 (so 0.01 is 1 and 250.0 is 25000); a product or quotient  *)
(* is rounded down to the grid, which stands for the rounding of the f64   *)
(* operation.  The one value outside the grid is NaN, which stands for     *)
(* every non-finite f64 (a NaN or an infinity): it is what a division by   *)
(* zero or the root of a negative number yields, it is absorbed by every   *)
(* arithmetic operation and every ordered comparison with it is false.     *)
(* The time step dt = 0.016 is finer than the grid and is kept as the      *)
(* exact fraction DT_NUM / DT_DEN; the field dt of a state counts units of *)
(* 1 / DT_DEN.  u32 ids are integers modulo 2^ID_BITS.                     *)
(***************************************************************************)
EXTENDS Integers, Sequences, FiniteSets, TLC

SCALE == 100

\* f64::NAN and the infinities
NaN == -2000000000

IsNum(a) == a # NaN

Neg(a) == IF a = NaN THEN NaN ELSE 0 - a

Add(a, b) == IF a = NaN \/ b = NaN THEN NaN ELSE a + b

Sub(a, b) == IF a = NaN \/ b = NaN THEN NaN ELSE a - b

\* floor(a * b / d) for d > 0 without forming a * b
MulDiv(a, b, d) == (a \div d) * b + ((a % d) * b) \div d

Mul(a, b) ==
    IF a = NaN \/ b = NaN THEN NaN
    ELSE IF b >= 0 /\ b < SCALE THEN MulDiv(b, a, SCALE)
    ELSE MulDiv(a, b, SCALE)

\* floor(a * SCALE / b) for b > 0, one decimal digit at a time
DivPos(a, b) ==
    LET q0 == a \div b
        r0 == a % b
        q1 == (r0 * 10) \div b
        r1 == (r0 * 10) % b
        q2 == (r1 * 10) \div b
    IN  q0 * SCALE + q1 * 10 + q2

Div(a, b) ==
    IF a = NaN \/ b = NaN \/ b = 0 THEN NaN
    ELSE IF b < 0 THEN DivPos(0 - a, 0 - b)
    ELSE DivPos(a, b)

\* a * n / d for the exact fraction n / d (d > 0)
MulFrac(a, n, d) == IF a = NaN THEN NaN ELSE MulDiv(a, n, d)

Lt(a, b) == a # NaN /\ b # NaN /\ a < b

Gt(a, b) == a # NaN /\ b # NaN /\ a > b

Ge(a, b) == a # NaN /\ b # NaN /\ a >= b

\* f64::max and f64::min return the other operand when one is NaN
FMax(a, b) == IF a = NaN THEN b ELSE IF b = NaN THEN a ELSE IF a >= b THEN a ELSE b

FMin(a, b) == IF a = NaN THEN b ELSE IF b = NaN THEN a ELSE IF a <= b THEN a ELSE b

\* f64::clamp
Clamp(a, lo, hi) == IF a = NaN THEN NaN ELSE IF a < lo THEN lo ELSE IF a > hi THEN hi ELSE a

\* the root r so far with the bits below bit still to settle; the square
\* of r + bit is compared by a division so that it is never formed
RECURSIVE SqrtBits(_, _, _)
SqrtBits(n, r, bit) ==
    IF bit = 0 THEN r
    ELSE IF r + bit <= n \div (r + bit) THEN SqrtBits(n, r + bit, bit \div 2)
    ELSE SqrtBits(n, r, bit \div 2)

\* floor(sqrt(n)) for 0 <= n < 2^31
ISqrt(n) == SqrtBits(n, 0, 32768)

\* f64::sqrt: floor(sqrt(a * SCALE)), the last decimal digit found from the
\* integer root so that a * SCALE is never formed
Sqrt(a) ==
    IF a = NaN \/ a < 0 THEN NaN
    ELSE LET s == ISqrt(a)
             r == a - s * s
             d == CHOOSE d \in 0 .. 9 :
                     /\ d * (20 * s + d) <= SCALE * r
                     /\ \A e \in (d + 1) .. 9 : e * (20 * s + e) > SCALE * r
         IN  10 * s + d

Abs(a) == IF a < 0 THEN 0 - a ELSE a

Cube(c) == Mul(Mul(c, c), c)

\* the largest c in lo..hi whose cube is at most a (Cube(lo) <= a)
RECURSIVE CbrtSearch(_, _, _)
CbrtSearch(lo, hi, a) ==
    IF lo >= hi THEN lo
    ELSE LET mid == (lo + hi + 1) \div 2
         IN  IF Cube(mid) <= a THEN CbrtSearch(mid, hi, a)
             ELSE CbrtSearch(lo, mid - 1, a)

\* f64::cbrt
Cbrt(a) ==
    IF a = NaN THEN NaN
    ELSE IF a < 0 THEN 0 - CbrtSearch(0, 27000, 0 - a)
    ELSE CbrtSearch(0, 27000, a)

RECURSIVE Gcd(_, _)
Gcd(a, b) == IF b = 0 THEN a ELSE Gcd(b, a % b)


(***************************************************************************)
(* physics.rs: Vec3 and CelestialBody.  A Vec3 is the tuple <<x, y, z>>.   *)
(* The display strings name and color and the constant max_fuel take part  *)
(* in no computation and are left out of the body record.                  *)
(***************************************************************************)
Vec3_zero == <<0, 0, 0>>

VAdd(a, b) == <<Add(a[1], b[1]), Add(a[2], b[2]), Add(a[3], b[3])>>

VSub(a, b) == <<Sub(a[1], b[1]), Sub(a[2], b[2]), Sub(a[3], b[3])>>

\* Vec3::scale by an f64
VScale(v, k) == <<Mul(v[1], k), Mul(v[2], k), Mul(v[3], k)>>

\* Vec3::scale by the exact fraction n / d
VScaleFrac(v, n, d) == <<MulFrac(v[1], n, d), MulFrac(v[2], n, d), MulFrac(v[3], n, d)>>

\* Vec3::scale(1.0 / k): the reciprocal is not formed on the grid, each
\* component is divided by k
VDiv(v, k) == <<Div(v[1], k), Div(v[2], k), Div(v[3], k)>>

NormSq(v) == Add(Add(Mul(v[1], v[1]), Mul(v[2], v[2])), Mul(v[3], v[3]))

magnitude(v) == Sqrt(NormSq(v))

VIsNum(v) == IsNum(v[1]) /\ IsNum(v[2]) /\ IsNum(v[3])

MAX_TRAIL_POINTS == 500

DEFAULT_FUEL == 10000

BodyTypes == {"star", "planet", "spacecraft"}

CelestialBody_new(id, position, velocity, mass, radius, is_fixed) ==
    [ id           |-> id,
      position     |-> position,
      velocity     |-> velocity,
      acceleration |-> Vec3_zero,
      mass         |-> mass,
      radius       |-> radius,
      trail        |-> << >>,
      is_fixed     |-> is_fixed,
      body_type    |-> IF is_fixed THEN "star" ELSE "planet",
      thrust       |-> Vec3_zero,
      fuel         |-> DEFAULT_FUEL ]

record_trail(b) ==
    LET pushed == Append(b.trail,
                         <<b.position[1], b.position[2], b.position[3],
                           magnitude(b.velocity)>>)
    IN  [b EXCEPT !.trail = IF Len(pushed) > MAX_TRAIL_POINTS
                            THEN Tail(pushed) ELSE pushed]

(***************************************************************************)
(* simulation.rs: SimulationState.  dt, g and softening are set by new()   *)
(* and written by nothing but import_state.  dt is a field, in units of    *)
(* 1 / DT_DEN; the snapshots the model imports carry the g and softening   *)
(* of new(), so these two are definitions.  gpu is                         *)
(* TRUE when the state holds a GPU handle.  acc_src is a history field:    *)
(* the ids and masses of the bodies that the stored accelerations were     *)
(* last computed from; nothing reads it but the properties.                *)
(***************************************************************************)
DT_NUM == 16

DT_DEN == 1000

G == 10000

SOFTENING == 1000

DEFAULT_THETA == 50

ID_BITS == 3

U32_MOD == 2 ^ ID_BITS

U32_MAX == U32_MOD - 1

SimulationState_new ==
    [ bodies           |-> << >>,
      tick             |-> 0,
      dt               |-> DT_NUM,
      paused           |-> FALSE,
      speed_multiplier |-> SCALE,
      next_id          |-> 0,
      theta            |-> DEFAULT_THETA,
      gpu              |-> FALSE,
      acc_src          |-> << >> ]

Indices(bs) == 1 .. Len(bs)

find_body(bs, id) ==
    IF \E i \in Indices(bs) : bs[i].id = id
    THEN CHOOSE i \in Indices(bs) :
            bs[i].id = id /\ \A k \in 1 .. (i - 1) : bs[k].id # id
    ELSE 0

\* one term of the direct sum: the softened attraction of the body at pj
PairAccel(pi, pj, mj) ==
    LET diff      == VSub(pj, pi)
        dist_sq   == Add(NormSq(diff), Mul(SOFTENING, SOFTENING))
        dist      == Sqrt(dist_sq)
        force_mag == Div(Mul(G, mj), dist_sq)
        dir       == VDiv(diff, dist)
    IN  VScale(dir, force_mag)

RECURSIVE BruteSum(_, _, _)
BruteSum(bs, i, j) ==
    IF j > Len(bs) THEN Vec3_zero
    ELSE IF j = i THEN BruteSum(bs, i, j + 1)
    ELSE VAdd(PairAccel(bs[i].position, bs[j].position, bs[j].mass),
              BruteSum(bs, i, j + 1))

compute_accelerations_brute(bs) ==
    [i \in Indices(bs) |->
        [bs[i] EXCEPT !.acceleration =
            IF bs[i].is_fixed THEN Vec3_zero ELSE BruteSum(bs, i, 1)]]


Basis(bs) == [i \in Indices(bs) |-> <<bs[i].id, bs[i].mass>>]

(***************************************************************************)
(* barneshut.rs.  An OctreeNode is a record; its children are the function *)
(* from the octants 0..7 to an Option of a node.  A body index is the      *)
(* position of the body in the list.                                       *)
(***************************************************************************)
MAX_DEPTH == 20

\* f64::MAX and f64::MIN, the start values of the bounding box: beyond
\* every coordinate of the model
F64_MAX == 500000000

\* Option<T>: << >> is None, <<v>> is Some(v)
None == << >>

Some(v) == <<v>>

OctreeNode_new(center, half_size) ==
    [ center         |-> center,
      half_size      |-> half_size,
      total_mass     |-> 0,
      center_of_mass |-> Vec3_zero,
      body_index     |-> None,
      children       |-> [o \in 0 .. 7 |-> None] ]

octant(node, pos) ==
    (IF Ge(pos[1], node.center[1]) THEN 1 ELSE 0)
      + (IF Ge(pos[2], node.center[2]) THEN 2 ELSE 0)
      + (IF Ge(pos[3], node.center[3]) THEN 4 ELSE 0)

\* child_center for the quarter size q
ChildCenterAt(center, q, o) ==
    <<Add(center[1], IF o % 2 = 1 THEN q ELSE Neg(q)),
      Add(center[2], IF (o \div 2) % 2 = 1 THEN q ELSE Neg(q)),
      Add(center[3], IF o \div 4 = 1 THEN q ELSE Neg(q))>>

child_center(node, o) == ChildCenterAt(node.center, Mul(node.half_size, 50), o)

\* the mass-weighted mean of two points, or of two velocities
WeightedMean(m1, a, m2, b, total_mass) ==
    <<Div(Add(Mul(m1, a[1]), Mul(m2, b[1])), total_mass),
      Div(Add(Mul(m1, a[2]), Mul(m2, b[2])), total_mass),
      Div(Add(Mul(m1, a[3]), Mul(m2, b[3])), total_mass)>>

\* the aggregate update of insert: the node takes the mass, and the centre
\* of mass moves where the new mass is positive
Accumulate(node, pos, mass) ==
    [node EXCEPT
       !.center_of_mass =
           IF Gt(Add(node.total_mass, mass), 0)
           THEN WeightedMean(node.total_mass, node.center_of_mass, mass, pos,
                             Add(node.total_mass, mass))
           ELSE @,
       !.total_mass = Add(node.total_mass, mass)]

RECURSIVE insert(_, _, _, _, _)

\* children[o] after insert_into_child: the child of octant o, made when it
\* is not there yet, takes the body
ChildWith(node, o, idx, pos, mass, depth) ==
    <<insert(IF node.children[o] = None
             THEN OctreeNode_new(child_center(node, o), Mul(node.half_size, 50))
             ELSE node.children[o][1],
             idx, pos, mass, depth + 1)>>

insert_into_child(node, idx, pos, mass, depth) ==
    [node EXCEPT !.children[octant(node, pos)] =
        ChildWith(node, octant(node, pos), idx, pos, mass, depth)]

\* a single-body leaf hands its body to a child and is reset
Subdivide(node, depth) ==
    IF node.body_index # None
    THEN insert_into_child([node EXCEPT !.body_index     = None,
                                        !.total_mass     = 0,
                                        !.center_of_mass = Vec3_zero],
                           node.body_index[1], node.center_of_mass,
                           node.total_mass, depth)
    ELSE node

\* the end of insert on the node as Subdivide left it: insert_into_child
\* for the new body, then the aggregate update, which reads the node's own
\* total_mass and center_of_mass, and these insert_into_child leaves alone
InsertBelow(node, idx, pos, mass, depth) ==
    [Accumulate(node, pos, mass) EXCEPT !.children[octant(node, pos)] =
        ChildWith(node, octant(node, pos), idx, pos, mass, depth)]

\* OctreeNode::insert
insert(node, idx, pos, mass, depth) ==
    CASE depth >= MAX_DEPTH -> Accumulate(node, pos, mass)
      [] depth < MAX_DEPTH /\ node.total_mass = 0 /\ node.body_index = None ->
            [node EXCEPT !.body_index     = Some(idx),
                         !.total_mass     = mass,
                         !.center_of_mass = pos]
      [] OTHER -> InsertBelow(Subdivide(node, depth), idx, pos, mass, depth)

\* direct_accel: diff.scale(force_mag / dist) is the product of the direct
\* sum with its factors in another order; the two differ below the grid
direct_accel(pos, other_pos, other_mass) == PairAccel(pos, other_pos, other_mass)

\* the Barnes-Hut criterion s / d < theta, as s * s < theta * theta * d * d
FarEnough(node, pos, theta) ==
    Lt(Mul(Mul(node.half_size, 2 * SCALE), Mul(node.half_size, 2 * SCALE)),
       Mul(Mul(theta, theta),
           Add(NormSq(VSub(node.center_of_mass, pos)), Mul(SOFTENING, SOFTENING))))

\* the sum of eight vectors; a function, so that its argument is evaluated
\* before it is applied
VSum8 ==
    [terms \in [1 .. 8 -> [1 .. 3 -> Int]] |->
        <<Add(Add(Add(terms[1][1], terms[2][1]), Add(terms[3][1], terms[4][1])),
              Add(Add(terms[5][1], terms[6][1]), Add(terms[7][1], terms[8][1]))),
          Add(Add(Add(terms[1][2], terms[2][2]), Add(terms[3][2], terms[4][2])),
              Add(Add(terms[5][2], terms[6][2]), Add(terms[7][2], terms[8][2]))),
          Add(Add(Add(terms[1][3], terms[2][3]), Add(terms[3][3], terms[4][3])),
              Add(Add(terms[5][3], terms[6][3]), Add(terms[7][3], terms[8][3])))>>]

\* the child of octant o, an empty node where there is none: the loop
\* skips a child that is None, and an empty node adds nothing
ChildOrEmpty(node, o) ==
    IF node.children[o] = None
    THEN OctreeNode_new(child_center(node, o), Mul(node.half_size, 50))
    ELSE node.children[o][1]

RECURSIVE compute_acceleration(_, _, _, _)

\* OctreeNode::compute_acceleration
compute_acceleration(node, pos, body_index, theta) ==
    CASE node.total_mass = 0 -> Vec3_zero
      [] node.total_mass # 0 /\ node.body_index # None ->
            IF node.body_index[1] = body_index THEN Vec3_zero
            ELSE direct_accel(pos, node.center_of_mass, node.total_mass)
      [] node.total_mass # 0 /\ node.body_index = None /\ FarEnough(node, pos, theta) ->
            direct_accel(pos, node.center_of_mass, node.total_mass)
      [] OTHER ->
            VSum8[<<compute_acceleration(ChildOrEmpty(node, 0), pos, body_index, theta),
                    compute_acceleration(ChildOrEmpty(node, 1), pos, body_index, theta),
                    compute_acceleration(ChildOrEmpty(node, 2), pos, body_index, theta),
                    compute_acceleration(ChildOrEmpty(node, 3), pos, body_index, theta),
                    compute_acceleration(ChildOrEmpty(node, 4), pos, body_index, theta),
                    compute_acceleration(ChildOrEmpty(node, 5), pos, body_index, theta),
                    compute_acceleration(ChildOrEmpty(node, 6), pos, body_index, theta),
                    compute_acceleration(ChildOrEmpty(node, 7), pos, body_index, theta)>>]

\* the bounding box of build_octree: the least and the greatest coordinate c
RECURSIVE CoordMin(_, _, _)
CoordMin(bs, c, i) ==
    IF i > Len(bs) THEN F64_MAX
    ELSE FMin(CoordMin(bs, c, i + 1), bs[i].position[c])

RECURSIVE CoordMax(_, _, _)
CoordMax(bs, c, i) ==
    IF i > Len(bs) THEN 0 - F64_MAX
    ELSE FMax(CoordMax(bs, c, i + 1), bs[i].position[c])

BoxMiddle(bs, c) == Mul(Add(CoordMin(bs, c, 1), CoordMax(bs, c, 1)), 50)

BoxExtent(bs, c) == Sub(CoordMax(bs, c, 1), CoordMin(bs, c, 1))

RECURSIVE InsertAll(_, _, _)
InsertAll(root, bs, i) ==
    IF i > Len(bs) THEN root
    ELSE InsertAll(insert(root, i, bs[i].position, bs[i].mass, 0), bs, i + 1)

\* barneshut::build_octree over the positions and masses of bs
build_octree(bs) ==
    InsertAll(OctreeNode_new(<<BoxMiddle(bs, 1), BoxMiddle(bs, 2), BoxMiddle(bs, 3)>>,
                             Add(Mul(FMax(FMax(BoxExtent(bs, 1), BoxExtent(bs, 2)),
                                          BoxExtent(bs, 3)), 50),
                                 SCALE)),
              bs, 1)

\* the accelerations the tree gives the bodies that are not fixed
TreeAccelerations(bs, tree, theta) ==
    [i \in Indices(bs) |->
        [bs[i] EXCEPT !.acceleration =
            IF bs[i].is_fixed THEN Vec3_zero
            ELSE compute_acceleration(tree, bs[i].position, i, theta)]]

compute_accelerations_barneshut(bs, theta) ==
    TreeAccelerations(bs, build_octree(bs), theta)

(***************************************************************************)
(* gpu_gravity.rs: the shader sums g * m * dist^-3 * d over the other      *)
(* bodies, the direct sum with its factors in another order and in f32:    *)
(* the two differ below the grid.                                          *)
(***************************************************************************)
GpuGravity_compute_accelerations(bs) ==
    [i \in Indices(bs) |-> BruteSum(bs, i, 1)]

GpuAccelerations(bs, accels) ==
    [i \in Indices(bs) |->
        [bs[i] EXCEPT !.acceleration =
            IF ~bs[i].is_fixed THEN accels[i] ELSE Vec3_zero]]

compute_accelerations_gpu(bs) ==
    GpuAccelerations(bs, GpuGravity_compute_accelerations(bs))

\* more bodies than this and a GPU handle: the GPU backend
GPU_THRESHOLD == 500

\* more bodies than this: Barnes-Hut
BARNES_HUT_THRESHOLD == 50

\* backend selection of compute_accelerations
compute_accelerations(s) ==
    [s EXCEPT !.bodies  = IF Len(s.bodies) > GPU_THRESHOLD /\ s.gpu
                          THEN compute_accelerations_gpu(s.bodies)
                          ELSE IF Len(s.bodies) > BARNES_HUT_THRESHOLD
                          THEN compute_accelerations_barneshut(s.bodies, s.theta)
                          ELSE compute_accelerations_brute(s.bodies),
              !.acc_src = Basis(s.bodies)]

prime_accelerations(s) == compute_accelerations(s)

\* 0.001, the least thrust magnitude that burns, in thousandths
THRUST_EPS_MILLI == 1

\* the divisor of the fuel burn factor 0.1
FUEL_BURN_DEN == 10

ApplyThrust(b, hN, hD) ==
    IF b.body_type = "spacecraft" /\ Gt(b.fuel, 0)
    THEN LET thrust_mag == magnitude(b.thrust)
         IN  IF Gt(Mul(thrust_mag, 10 * SCALE), THRUST_EPS_MILLI)
             THEN [b EXCEPT
                     !.acceleration = VAdd(b.acceleration, VDiv(b.thrust, b.mass)),
                     !.fuel = FMax(Sub(b.fuel,
                                       MulFrac(thrust_mag, hN, hD * FUEL_BURN_DEN)), 0)]
             ELSE b
    ELSE b

Drift(b, hN, hD) ==
    IF b.is_fixed THEN b
    ELSE [b EXCEPT !.position =
            VAdd(VAdd(b.position, VScaleFrac(b.velocity, hN, hD)),
                 VScaleFrac(b.acceleration, hN * hN, 2 * hD * hD))]

Kick(b, old_acceleration, hN, hD) ==
    IF b.is_fixed THEN b
    ELSE [b EXCEPT !.velocity =
            VAdd(b.velocity,
                 VScaleFrac(VAdd(old_acceleration, b.acceleration), hN, 2 * hD))]

\* the drift loop of step_verlet
DriftAll(bs, hN, hD) == [i \in Indices(bs) |-> Drift(bs[i], hN, hD)]

\* the thrust loop of step_verlet
ThrustAll(s, hN, hD) ==
    [s EXCEPT !.bodies = [i \in Indices(s.bodies) |->
                             ApplyThrust(s.bodies[i], hN, hD)]]

\* the kick loop of step_verlet; old_bodies carry the old accelerations
KickAll(s, old_bodies, hN, hD) ==
    [s EXCEPT !.bodies = [i \in Indices(s.bodies) |->
                             Kick(s.bodies[i], old_bodies[i].acceleration, hN, hD)]]

\* step_verlet after its drift loop
VerletAfterDrift(s, drifted, hN, hD) ==
    KickAll(ThrustAll(compute_accelerations([s EXCEPT !.bodies = drifted]), hN, hD),
            drifted, hN, hD)

\* one velocity-Verlet step of length hN / hD
step_verlet(s, hN, hD) == VerletAfterDrift(s, DriftAll(s.bodies, hN, hD), hN, hD)

(***************************************************************************)
(* check_collisions.  The pass is the pair of loops of the source: the     *)
(* outer loop tests absorbed[i] once, when it reaches i; the inner loop    *)
(* tests absorbed[j] for every j.                                          *)
(***************************************************************************)
Overlapping(bi, bj) ==
    LET diff == VSub(bj.position, bi.position)
        dist == Sqrt(NormSq(diff))
    IN  Lt(dist, Add(bi.radius, bj.radius))

MergedRadius(r1, r2) == Cbrt(Add(Cube(r1), Cube(r2)))

\* the merge of survivor sv and absorbed body ab, whose new mass,
\* velocity, position and radius are given
Merged(sv, ab, total_mass, new_velocity, new_position, new_radius) ==
    [sv EXCEPT !.mass     = total_mass,
               !.velocity = new_velocity,
               !.position = new_position,
               !.radius   = new_radius,
               !.is_fixed = IF ab.is_fixed THEN TRUE ELSE sv.is_fixed]

\* one merge as the pass logs it: the CollisionEvent, the two indices, the
\* two bodies as they were just before the merge and the survivor after it
MergeOf(survivor_idx, absorbed_idx, sv, ab, after) ==
    [ event           |-> [ absorbed_id   |-> ab.id,
                            survivor_id   |-> sv.id,
                            position      |-> after.position,
                            combined_mass |-> after.mass ],
      survivor_idx    |-> survivor_idx,
      absorbed_idx    |-> absorbed_idx,
      survivor_before |-> sv,
      absorbed_before |-> ab,
      survivor_after  |-> after ]

MergeBodies(survivor_idx, absorbed_idx, sv, ab) ==
    MergeOf(survivor_idx, absorbed_idx, sv, ab,
            Merged(sv, ab, Add(sv.mass, ab.mass),
                   WeightedMean(sv.mass, sv.velocity, ab.mass, ab.velocity,
                                Add(sv.mass, ab.mass)),
                   WeightedMean(sv.mass, sv.position, ab.mass, ab.position,
                                Add(sv.mass, ab.mass)),
                   MergedRadius(sv.radius, ab.radius)))

\* the merge of the overlapping pair i < j, were the body of the lower
\* index always the survivor
MergePair_lower_index(bs, i, j) == MergeBodies(i, j, bs[i], bs[j])

\* the merge of the overlapping pair i < j
MergePair(bs, i, j) ==
    IF Ge(bs[i].mass, bs[j].mass)
    THEN MergeBodies(i, j, bs[i], bs[j])
    ELSE MergeBodies(j, i, bs[j], bs[i])

RECURSIVE CollideOuter(_, _, _, _, _)
RECURSIVE CollideInner(_, _, _, _, _, _)
RECURSIVE CollideMerged(_, _, _, _, _, _, _)
RECURSIVE CollideMerged_prepending(_, _, _, _, _, _, _)
CollideOuter(bs, absorbed, collisions, merges, i) ==
    IF i > Len(bs)
    THEN [bodies |-> bs, absorbed |-> absorbed, collisions |-> collisions,
          merges |-> merges]
    ELSE IF absorbed[i] THEN CollideOuter(bs, absorbed, collisions, merges, i + 1)
    ELSE CollideInner(bs, absorbed, collisions, merges, i, i + 1)

CollideInner(bs, absorbed, collisions, merges, i, j) ==
    IF j > Len(bs) THEN CollideOuter(bs, absorbed, collisions, merges, i + 1)
    ELSE IF absorbed[j] THEN CollideInner(bs, absorbed, collisions, merges, i, j + 1)
    ELSE IF Overlapping(bs[i], bs[j])
    THEN CollideMerged(bs, absorbed, collisions, merges, i, j, MergePair(bs, i, j))
    ELSE CollideInner(bs, absorbed, collisions, merges, i, j + 1)

\* the inner loop after the merge m of the pair (i, j), were the event put
\* in front of the events already found
CollideMerged_prepending(bs, absorbed, collisions, merges, i, j, m) ==
    CollideInner([bs EXCEPT ![m.survivor_idx] = m.survivor_after],
                 [absorbed EXCEPT ![m.absorbed_idx] = TRUE],
                 <<m.event>> \o collisions,
                 <<m>> \o merges,
                 i, j + 1)

\* the inner loop after the merge m of the pair (i, j)
CollideMerged(bs, absorbed, collisions, merges, i, j, m) ==
    CollideInner([bs EXCEPT ![m.survivor_idx] = m.survivor_after],
                 [absorbed EXCEPT ![m.absorbed_idx] = TRUE],
                 Append(collisions, m.event),
                 Append(merges, m),
                 i, j + 1)

RECURSIVE RemoveAbsorbed(_, _, _)
RemoveAbsorbed(bs, absorbed, i) ==
    IF i = 0 THEN bs
    ELSE IF absorbed[i]
    THEN RemoveAbsorbed(SubSeq(bs, 1, i - 1) \o SubSeq(bs, i + 1, Len(bs)),
                        absorbed, i - 1)
    ELSE RemoveAbsorbed(bs, absorbed, i - 1)

\* [bodies: the bodies left, collisions: the events returned, merges: one
\* record per merge, in order]
check_collisions(bs) ==
    LET scan == CollideOuter(bs, [i \in Indices(bs) |-> FALSE], << >>, << >>, 1)
    IN  [ bodies     |-> RemoveAbsorbed(scan.bodies, scan.absorbed, Len(bs)),
          collisions |-> scan.collisions,
          merges     |-> scan.merges ]


\* f64::ceil followed by the saturating cast `as u32`
CeilU32(x) ==
    IF x = NaN THEN 0
    ELSE LET c == (x + SCALE - 1) \div SCALE
         IN  IF c < 0 THEN 0 ELSE c

\* whether a drift of state s reads accelerations that were computed from
\* another set of bodies than the one s holds
StaleDrift(s) ==
    /\ s.acc_src # Basis(s.bodies)
    /\ \E i \in Indices(s.bodies) : ~s.bodies[i].is_fixed

\* one sub-step after its step_verlet (v) and its collision pass (c); pass
\* is the record of the sub-step: the bodies at its start, the bodies before
\* and after the collision pass, its events and merges, and whether the
\* drift was stale
SubStepOf(s, v, c) ==
    [ sim        |-> [v EXCEPT !.bodies = c.bodies],
      collisions |-> c.collisions,
      pass       |-> [ start       |-> s.bodies,
                       before      |-> v.bodies,
                       after       |-> c.bodies,
                       collisions  |-> c.collisions,
                       merges      |-> c.merges,
                       stale_drift |-> StaleDrift(s) ] ]

SubStepAfterVerlet(s, v) == SubStepOf(s, v, check_collisions(v.bodies))

\* one pass of the loop of step: step_verlet, then check_collisions
sub_step(s, hN, hD) == SubStepAfterVerlet(s, step_verlet(s, hN, hD))

RECURSIVE SubSteps(_, _, _, _, _, _)
RECURSIVE SubStepsNext(_, _, _, _, _, _)
\* the loop of step, k sub-steps to go
SubSteps(s, hN, hD, k, all_collisions, log) ==
    IF k = 0
    THEN [sim |-> s, collisions |-> all_collisions, passes |-> log]
    ELSE SubStepsNext(sub_step(s, hN, hD), hN, hD, k, all_collisions, log)

\* the rest of the loop after the sub-step r; the guard r = r makes TLC
\* evaluate r in full before the next sub-step starts from it
SubStepsNext(r, hN, hD, k, all_collisions, log) ==
    CASE r = r ->
        SubSteps(r.sim, hN, hD, k - 1, all_collisions \o r.collisions,
                 Append(log, r.pass))

\* the trail loop of step
RecordTrails(bs) ==
    [i \in Indices(bs) |-> IF bs[i].is_fixed THEN bs[i] ELSE record_trail(bs[i])]

\* the end of step: trails on even ticks, then the tick counter
StepEnd(r) ==
    [ sim        |-> [r.sim EXCEPT
                        !.bodies = IF r.sim.tick % 2 = 0 THEN RecordTrails(@) ELSE @,
                        !.tick   = @ + 1],
      collisions |-> r.collisions,
      passes     |-> r.passes ]

\* StepLoop as it would be if the sub-step length were dt * speed_multiplier,
\* not divided by the number of sub-steps
StepLoop_undivided(s, sub_steps, n0, d0, gcd) ==
    StepEnd(SubSteps(s, (n0 * sub_steps) \div gcd, d0 \div gcd, sub_steps,
                     << >>, << >>))

\* the sub-steps of a tick with sub_steps sub-steps, each of length
\* n0 / d0 reduced by their common divisor gcd
StepLoop(s, sub_steps, n0, d0, gcd) ==
    StepEnd(SubSteps(s, n0 \div gcd, d0 \div gcd, sub_steps, << >>, << >>))

\* step as it would be if it did not test paused (one sub-step of length dt)
step_ignoring_pause(s) ==
    IF Len(s.bodies) = 0
    THEN [sim |-> s, collisions |-> << >>, passes |-> << >>]
    ELSE StepLoop(s, 1, s.dt, DT_DEN, Gcd(s.dt, DT_DEN))

\* SimulationState::step
step(s) ==
    IF s.paused \/ Len(s.bodies) = 0
    THEN [sim |-> s, collisions |-> << >>, passes |-> << >>]
    ELSE IF CeilU32(s.speed_multiplier) = 0
    THEN StepEnd([sim |-> s, collisions |-> << >>, passes |-> << >>])
    ELSE StepLoop(s, CeilU32(s.speed_multiplier),
                  s.dt * s.speed_multiplier,
                  DT_DEN * SCALE * CeilU32(s.speed_multiplier),
                  Gcd(s.dt * s.speed_multiplier,
                      DT_DEN * SCALE * CeilU32(s.speed_multiplier)))

clear(s) == [s EXCEPT !.bodies = << >>, !.tick = 0, !.next_id = 0]

\* allocate_id where the addition does not overflow, or wraps
allocate_id(s) ==
    [id |-> s.next_id, sim |-> [s EXCEPT !.next_id = (s.next_id + 1) % U32_MOD]]

push(s, body) == [s EXCEPT !.bodies = Append(@, body)]

\* SimulationState::add_body
add_body(s, body) == compute_accelerations(push(s, body))

\* SimulationState::remove_body
remove_body(s, id) ==
    [s EXCEPT !.bodies = SelectSeq(@, LAMBDA b : b.id # id)]

\* the clone predict_orbit steps: the bodies without their trails, tick 0,
\* not paused, speed 1.0
PredictionOf(s) ==
    [s EXCEPT !.bodies = [i \in Indices(s.bodies) |->
                             [s.bodies[i] EXCEPT !.trail = << >>]],
              !.tick = 0,
              !.paused = FALSE,
              !.speed_multiplier = SCALE]

RECURSIVE PredictLoop(_, _, _, _)
RECURSIVE PredictPush(_, _, _, _)
\* the loop of predict_orbit on the clone pred, steps turns to go
PredictLoop(pred, body_id, steps, path) ==
    IF steps = 0 THEN path
    ELSE PredictPush(step_verlet(pred, pred.dt \div Gcd(pred.dt, DT_DEN),
                                 DT_DEN \div Gcd(pred.dt, DT_DEN)),
                     body_id, steps, path)

\* the turn after its step_verlet (the guard pred = pred makes TLC evaluate
\* pred in full before the next turn starts from it)
PredictPush(pred, body_id, steps, path) ==
    CASE pred = pred ->
        IF find_body(pred.bodies, body_id) # 0
        THEN PredictLoop(pred, body_id, steps - 1,
                         Append(path,
                                pred.bodies[find_body(pred.bodies, body_id)].position))
        ELSE path

\* predict_orbit as it would be if it stepped the state it was called on
\* and not a clone of it
predict_orbit_in_place(s, body_id, steps) ==
    [ live |-> step_verlet(PredictionOf(s), s.dt \div Gcd(s.dt, DT_DEN),
                           DT_DEN \div Gcd(s.dt, DT_DEN)),
      path |-> PredictLoop(PredictionOf(s), body_id, steps, << >>) ]

\* SimulationState::predict_orbit.  It takes &self: live is the state it
\* was called on, as the call leaves it
predict_orbit(s, body_id, steps) ==
    [ live |-> s,
      path |-> PredictLoop(PredictionOf(s), body_id, steps, << >>) ]

(***************************************************************************)
(* scenarios.rs.  Literals are written on the grid (0.055 is 5).           *)
(***************************************************************************)
add_sun(s, mass, radius) ==
    LET a == allocate_id(s)
    IN  push(a.sim, CelestialBody_new(a.id, Vec3_zero, Vec3_zero, mass, radius, TRUE))

add_planet(s, orbit_radius, mass, radius, sun_mass) ==
    LET a == allocate_id(s)
        v == Sqrt(Div(Mul(G, sun_mass), orbit_radius))
    IN  push(a.sim, CelestialBody_new(a.id, <<orbit_radius, 0, 0>>, <<0, v, 0>>,
                                      mass, radius, FALSE))

load_sun_earth(s) ==
    LET sun_mass         == 5000000
        orbit_radius     == 25000
        orbital_velocity == Sqrt(Div(Mul(G, sun_mass), orbit_radius))
        a1    == allocate_id(clear(s))
        sun   == CelestialBody_new(a1.id, Vec3_zero, Vec3_zero, sun_mass, 2000, TRUE)
        a2    == allocate_id(a1.sim)
        earth == CelestialBody_new(a2.id, <<orbit_radius, 0, 0>>,
                                   <<0, orbital_velocity, 0>>, 100, 800, FALSE)
    IN  prime_accelerations(push(push(a2.sim, sun), earth))

load_inner_solar(s) ==
    LET sun_mass == 5000000
        s0 == add_sun(clear(s), sun_mass, 2000)
        s1 == add_planet(s0, 15000, 5, 400, sun_mass)
        s2 == add_planet(s1, 22000, 81, 700, sun_mass)
        s3 == add_planet(s2, 30000, 100, 800, sun_mass)
        s4 == add_planet(s3, 40000, 10, 500, sun_mass)
    IN  prime_accelerations(s4)

load_binary_star(s) ==
    LET star_mass  == 2500000
        separation == 20000
        v          == Sqrt(Div(Mul(G, star_mass), Mul(200, separation)))
        a1     == allocate_id(clear(s))
        star1  == CelestialBody_new(a1.id, <<0 - separation, 0, 0>>, <<0, 0 - v, 0>>,
                                    star_mass, 1800, FALSE)
        a2     == allocate_id(a1.sim)
        star2  == CelestialBody_new(a2.id, <<separation, 0, 0>>, <<0, v, 0>>,
                                    star_mass, 1800, FALSE)
        test_r == 60000
        test_v == Sqrt(Div(Mul(G, Mul(star_mass, 200)), test_r))
        a3     == allocate_id(a2.sim)
        test_particle == CelestialBody_new(a3.id, <<test_r, 0, 0>>, <<0, test_v, 0>>,
                                           1, 400, FALSE)
    IN  prime_accelerations(push(push(push(a3.sim, star1), star2), test_particle))

load_figure_eight(s) ==
    LET mass     == 10000
        scale    == 20000
        v_factor == Sqrt(Div(Mul(G, mass), scale))
        a1 == allocate_id(clear(s))
        b1 == CelestialBody_new(a1.id, <<Mul(-97, scale), Mul(24, scale), 0>>,
                                <<Mul(46, v_factor), Mul(43, v_factor), 0>>,
                                mass, 800, FALSE)
        a2 == allocate_id(a1.sim)
        b2 == CelestialBody_new(a2.id, <<Mul(97, scale), Mul(-24, scale), 0>>,
                                <<Mul(46, v_factor), Mul(43, v_factor), 0>>,
                                mass, 800, FALSE)
        a3 == allocate_id(a2.sim)
        b3 == CelestialBody_new(a3.id, Vec3_zero,
                                <<Mul(-93, v_factor), Mul(-86, v_factor), 0>>,
                                mass, 800, FALSE)
    IN  prime_accelerations(push(push(push(a3.sim, b1), b2), b3))


load_outer_solar(s) ==
    LET sun_mass == 5000000
        s0 == add_sun(clear(s), sun_mass, 2000)
        s1 == add_planet(s0, 50000, 31780, 1600, sun_mass)
        s2 == add_planet(s1, 70000, 9520, 1400, sun_mass)
        s3 == add_planet(s2, 95000, 1450, 1000, sun_mass)
        s4 == add_planet(s3, 120000, 1710, 1000, sun_mass)
    IN  prime_accelerations(s4)

(***************************************************************************)
(* procedural.rs and galaxy.rs.  Every draw of the random generator is an  *)
(* argument: the caller chooses it from a small set.  An angle is the pair *)
(* <<cos, sin>>.                                                           *)
(***************************************************************************)
\* draw: [jitter, mass, angle, inclination], one per planet
RECURSIVE generate_planets(_, _, _, _, _, _)
generate_planets(s, star_mass, min_spacing, spacing_step, orbit_radius, draws) ==
    IF Len(draws) = 0 THEN s
    ELSE LET d      == Head(draws)
             jitter == Mul(d.jitter, spacing_step)
             r      == FMax(Add(orbit_radius, jitter), min_spacing)
             mass   == d.mass
             radius == FMin(FMax(Mul(Cbrt(mass), 300), 200), 1800)
             v      == Sqrt(Div(Mul(G, star_mass), r))
             px     == Mul(r, d.angle[1])
             py     == Mul(r, d.angle[2])
             vx     == Mul(Mul(Neg(v), d.angle[2]), d.inclination[1])
             vy     == Mul(Mul(v, d.angle[1]), d.inclination[1])
             vz     == Mul(v, d.inclination[2])
             a      == allocate_id(s)
             body   == CelestialBody_new(a.id, <<px, py, 0>>, <<vx, vy, vz>>,
                                         mass, radius, FALSE)
         IN  generate_planets(push(a.sim, body), star_mass, min_spacing,
                              spacing_step, Add(orbit_radius, spacing_step),
                              Tail(draws))

\* procedural::generate_system; planet_count is Len(draws)
generate_system(s, star_mass, min_spacing, max_radius, draws) ==
    LET a            == allocate_id(clear(s))
        star_radius  == FMin(FMax(Cbrt(Div(star_mass, 100000)), 800), 3000)
        star         == CelestialBody_new(a.id, Vec3_zero, Vec3_zero, star_mass,
                                          star_radius, TRUE)
        planet_count == Len(draws)
        spacing_step == IF planet_count > 1
                        THEN Div(Sub(max_radius, min_spacing),
                                 (planet_count - 1) * SCALE)
                        ELSE 0
    IN  prime_accelerations(
            generate_planets(push(a.sim, star), star_mass, min_spacing,
                             spacing_step, min_spacing, draws))

\* draw: [u_sqrt, angle, z, radius], one per particle
RECURSIVE generate_disc(_, _, _, _, _)
generate_disc(s, center, bulk_vel, core_mass, draws) ==
    IF Len(draws) = 0 THEN s
    ELSE LET d     == Head(draws)
             min_r == 3000
             max_r == 30000
             r     == Add(min_r, Mul(Sub(max_r, min_r), d.u_sqrt))
             px    == Add(center[1], Mul(r, d.angle[1]))
             py    == Add(center[2], Mul(r, d.angle[2]))
             pz    == Add(center[3], d.z)
             v     == Sqrt(Div(Mul(G, core_mass), r))
             vx    == Sub(bulk_vel[1], Mul(v, d.angle[2]))
             vy    == Add(bulk_vel[2], Mul(v, d.angle[1]))
             vz    == bulk_vel[3]
             a     == allocate_id(s)
             body  == CelestialBody_new(a.id, <<px, py, pz>>, <<vx, vy, vz>>,
                                        1, d.radius, FALSE)
         IN  generate_disc(push(a.sim, body), center, bulk_vel, core_mass,
                           Tail(draws))

\* galaxy::generate_collision; draws1 and draws2 hold
\* min(particles_per_galaxy, 500) draws each
generate_collision(s, draws1, draws2) ==
    LET center1    == <<-40000, 0, 0>>
        bulk_vel1  == <<3000, 500, 0>>
        core_mass1 == 10000000
        center2    == <<40000, 0, 0>>
        bulk_vel2  == <<-3000, -500, 0>>
        core_mass2 == 8000000
        a1 == allocate_id(clear(s))
        s1 == push(a1.sim, CelestialBody_new(a1.id, center1, bulk_vel1,
                                             core_mass1, 1500, FALSE))
        s2 == generate_disc(s1, center1, bulk_vel1, core_mass1, draws1)
        a2 == allocate_id(s2)
        s3 == push(a2.sim, CelestialBody_new(a2.id, center2, bulk_vel2,
                                             core_mass2, 1300, FALSE))
        s4 == generate_disc(s3, center2, bulk_vel2, core_mass2, draws2)
    IN  prime_accelerations(s4)


(***************************************************************************)
(* The running program (lib.rs, commands.rs).  The state sits behind one   *)
(* mutex: a command holds it from its first line to its last, the tick     *)
(* thread holds it across step and to_frame, so each is one action.        *)
(*                                                                         *)
(*   sim             the SimulationState behind the mutex                  *)
(*   poisoned        a thread panicked while it held the mutex; every      *)
(*                   later lock().unwrap() panics                          *)
(*   collisions      the CollisionEvents of the last tick                  *)
(*   passes          history: the sub-steps of the last tick               *)
(*   ncmd, nticks    the commands and ticks run so far                     *)
(*   returned        what the step just taken returned to its caller: the  *)
(*                   path of predict_orbit, Ok or Err of import_state,     *)
(*                   Unit after a tick or any other command                *)
(*   mutex           who holds the mutex: "free", "tick" or "cmd"          *)
(*   tick_thread     the tick thread: its position in the loop of lib.rs,  *)
(*                   the locals of the step it is in and its last frame    *)
(*   cmd_thread      a command thread: its position in a command           *)
(*                                                                         *)
(* Spec takes a command and a tick as one step each; LockSpec, below,      *)
(* takes them statement by statement and moves the last three variables.   *)
(*                                                                         *)
(* An integer overflow wraps (a release build) or panics (a build with     *)
(* overflow checks): where one can happen, both outcomes are steps.        *)
(***************************************************************************)
VARIABLES sim, poisoned, collisions, passes, ncmd, nticks, returned,
          mutex, tick_thread, cmd_thread

vars == <<sim, poisoned, collisions, passes, ncmd, nticks, returned,
          mutex, tick_thread, cmd_thread>>

threads == <<mutex, tick_thread, cmd_thread>>

Unit == [kind |-> "unit"]

Ok == [kind |-> "ok"]

Err == [kind |-> "err"]

Path(path) == [kind |-> "path", value |-> path]

MaxCmds == 2

MaxTicks == 2

MaxBodies == 3

MaxPlanets == 1

MaxParticles == 1

MIN_MASS == 1

MIN_RADIUS == 50

MIN_SPEED == 25

MAX_SPEED == 800

MAX_THETA == 200

Init ==
    /\ \E gpu \in BOOLEAN :
          sim = load_sun_earth([SimulationState_new EXCEPT !.gpu = gpu])
    /\ poisoned = FALSE
    /\ collisions = << >>
    /\ passes = << >>
    /\ ncmd = 0
    /\ nticks = 0
    /\ returned = Unit
    /\ mutex = "free"
    /\ tick_thread = [pc |-> "lock", k |-> 0, hN |-> 0, hD |-> 1,
                      frame |-> << >>, stepped |-> << >>]
    /\ cmd_thread = [pc |-> "idle"]

\* a command that runs to its end, leaves the state s and returns ret
CommandReturning(s, ret) ==
    /\ sim' = s
    /\ ncmd' = ncmd + 1
    /\ returned' = ret
    /\ UNCHANGED <<poisoned, collisions, passes, nticks, threads>>

\* a command that runs to its end and leaves the state s
Command(s) == CommandReturning(s, Unit)

\* a command that panics while it holds the mutex, before it wrote anything
CommandPanicsLocked ==
    /\ poisoned' = TRUE
    /\ ncmd' = ncmd + 1
    /\ returned' = Unit
    /\ UNCHANGED <<sim, collisions, passes, nticks, threads>>

CanRun == ~poisoned /\ ncmd < MaxCmds

TogglePause ==
    /\ CanRun
    /\ Command([sim EXCEPT !.paused = ~sim.paused])

SpeedInputs == {0, 150, 200, 900}

set_speed(s, multiplier) ==
    [s EXCEPT !.speed_multiplier = Clamp(multiplier, MIN_SPEED, MAX_SPEED)]

SetSpeed ==
    /\ CanRun
    /\ \E multiplier \in SpeedInputs : Command(set_speed(sim, multiplier))

ThetaInputs == {-100, 0, 300}

set_theta(s, theta) == [s EXCEPT !.theta = Clamp(theta, 0, MAX_THETA)]

SetTheta ==
    /\ CanRun
    /\ \E theta \in ThetaInputs : Command(set_theta(sim, theta))

LoadTestScenario ==
    /\ CanRun
    /\ Command(load_sun_earth(sim))

ClearSimulation ==
    /\ CanRun
    /\ Command(clear(sim))

\* BodyData of add_body; a text without body_type decodes to the default,
\* "planet"
BodyInputs ==
    { [x |-> p[1], y |-> 0, z |-> 0, vx |-> 0, vy |-> v, vz |-> 0,
       mass |-> m[1], radius |-> m[2], is_fixed |-> k[1], body_type |-> k[2]] :
        p \in {<<0>>, <<100>>, <<3000>>},
        v \in {500},
        m \in {<<-100, 0>>, <<100, 300>>},
        k \in {<<FALSE, "planet">>, <<FALSE, "spacecraft">>,
               <<TRUE, "spacecraft">>, <<TRUE, "planet">>} }

\* the body add_body builds from its BodyData
NewBodyOf(id, body_data) ==
    LET mass   == FMax(body_data.mass, MIN_MASS)
        radius == FMax(body_data.radius, MIN_RADIUS)
        body   == CelestialBody_new(id,
                                    <<body_data.x, body_data.y, body_data.z>>,
                                    <<body_data.vx, body_data.vy, body_data.vz>>,
                                    mass, radius, body_data.is_fixed)
    IN  [body EXCEPT !.body_type = body_data.body_type]

AddBody ==
    /\ CanRun
    /\ Len(sim.bodies) < MaxBodies
    /\ \E body_data \in BodyInputs :
          \/ LET a == allocate_id(sim)
             IN  Command(add_body(a.sim, NewBodyOf(a.id, body_data)))
          \/ /\ sim.next_id = U32_MAX
             /\ CommandPanicsLocked

IdInputs == {0, 1, 2, U32_MAX}

RemoveBody ==
    /\ CanRun
    /\ \E id \in IdInputs : Command(remove_body(sim, id))

\* BodyUpdate of update_body (color and name change nothing modelled)
UpdateInputs ==
    { [mass |-> None, radius |-> None, is_fixed |-> None],
      [mass |-> Some(-100), radius |-> None, is_fixed |-> None],
      [mass |-> Some(200), radius |-> None, is_fixed |-> None],
      [mass |-> None, radius |-> Some(0), is_fixed |-> None],
      [mass |-> None, radius |-> None, is_fixed |-> Some(TRUE)],
      [mass |-> None, radius |-> None, is_fixed |-> Some(FALSE)] }

UpdatedBody(b, fields) ==
    [b EXCEPT
       !.mass     = IF fields.mass # None THEN FMax(fields.mass[1], MIN_MASS) ELSE @,
       !.radius   = IF fields.radius # None THEN FMax(fields.radius[1], MIN_RADIUS) ELSE @,
       !.is_fixed = IF fields.is_fixed # None THEN fields.is_fixed[1] ELSE @]

update_body(s, id, fields) ==
    LET i == find_body(s.bodies, id)
    IN  IF i = 0 THEN s
        ELSE [s EXCEPT !.bodies[i] = UpdatedBody(s.bodies[i], fields)]

UpdateBody ==
    /\ CanRun
    /\ \E id \in IdInputs, fields \in UpdateInputs :
          Command(update_body(sim, id, fields))

VelocityInputs == {<<0, 0, 0>>, <<-300, 0, 0>>}

update_body_velocity(s, id, v) ==
    LET i == find_body(s.bodies, id)
    IN  IF i = 0 THEN s ELSE [s EXCEPT !.bodies[i].velocity = v]

UpdateBodyVelocity ==
    /\ CanRun
    /\ \E id \in IdInputs, v \in VelocityInputs :
          Command(update_body_velocity(sim, id, v))

ThrustInputs == {<<0, 0, 0>>, <<500, 0, 0>>}

set_spacecraft_thrust(s, id, t) ==
    LET i == find_body(s.bodies, id)
    IN  IF i # 0 /\ s.bodies[i].body_type = "spacecraft"
        THEN [s EXCEPT !.bodies[i].thrust = t]
        ELSE s

SetSpacecraftThrust ==
    /\ CanRun
    /\ \E id \in IdInputs, t \in ThrustInputs :
          Command(set_spacecraft_thrust(sim, id, t))

\* the cap of the predict_orbit command on steps: 2000 in commands.rs,
\* scaled down so that a request above the cap can be run to its end
MAX_PREDICT_STEPS == 3

StepsInputs == {0, 2, MAX_PREDICT_STEPS + 1}

\* the predict_orbit command without its cap on steps
predict_orbit_uncapped(s, body_id, steps) == predict_orbit(s, body_id, steps)

\* the predict_orbit command
predict_orbit_command(s, body_id, steps) ==
    predict_orbit(s, body_id,
                  IF steps < MAX_PREDICT_STEPS THEN steps ELSE MAX_PREDICT_STEPS)

\* the command that leaves the state r.live and returns the path r.path
Predicted(r) == CommandReturning(r.live, Path(r.path))

PredictOrbit ==
    /\ CanRun
    /\ \E body_id \in {1, U32_MAX}, steps \in StepsInputs :
          Predicted(predict_orbit_command(sim, body_id, steps))

\* the names given to load_scenario: five scenarios of at most five bodies
\* and a name that matches no arm
ScenarioNames ==
    {"sun_earth", "inner_solar", "outer_solar", "binary_star", "figure_eight",
     "no_such_scenario"}

\* load_scenario as it would be if a name that matches no arm loaded the
\* first scenario
load_scenario_defaulting(s, name) ==
    CASE name = "sun_earth"    -> load_sun_earth(s)
      [] name = "inner_solar"  -> load_inner_solar(s)
      [] name = "outer_solar"  -> load_outer_solar(s)
      [] name = "binary_star"  -> load_binary_star(s)
      [] name = "figure_eight" -> load_figure_eight(s)
      [] OTHER                 -> load_sun_earth(s)

load_scenario(s, name) ==
    CASE name = "sun_earth"    -> load_sun_earth(s)
      [] name = "inner_solar"  -> load_inner_solar(s)
      [] name = "outer_solar"  -> load_outer_solar(s)
      [] name = "binary_star"  -> load_binary_star(s)
      [] name = "figure_eight" -> load_figure_eight(s)
      [] OTHER                 -> s

LoadScenario ==
    /\ CanRun
    /\ \E name \in ScenarioNames : Command(load_scenario(sim, name))


StarMassInputs == {-100, 100, 5000000}

PlanetDraws ==
    [ jitter      : {-15},
      mass        : {10, 10000},
      angle       : {<<0, 100>>},
      inclination : {<<98, 14>>} ]

GenerateSystem ==
    /\ CanRun
    /\ \E star_mass \in StarMassInputs, planet_count \in 0 .. MaxPlanets :
          \E draws \in [1 .. planet_count -> PlanetDraws] :
             Command(generate_system(sim, star_mass, 5000, 10000, draws))

DiscDraws ==
    [ u_sqrt : {50},
      angle  : {<<100, 0>>, <<0, 100>>},
      z      : {-500},
      radius : {120} ]

LoadGalaxyCollision ==
    /\ CanRun
    /\ \E particles \in 0 .. MaxParticles :
          \E draws1 \in [1 .. particles -> DiscDraws],
             draws2 \in [1 .. particles -> DiscDraws] :
             Command(generate_collision(sim, draws1, draws2))

\* a body as a snapshot spells it: every field is read from the JSON text
SnapBody(id, x, mass, radius, is_fixed) ==
    [ id           |-> id,
      position     |-> <<x, 0, 0>>,
      velocity     |-> <<0, 100, 0>>,
      acceleration |-> <<700, 0, 0>>,
      mass         |-> mass,
      radius       |-> radius,
      trail        |-> << >>,
      is_fixed     |-> is_fixed,
      body_type    |-> "planet",
      thrust       |-> Vec3_zero,
      fuel         |-> DEFAULT_FUEL ]

\* a trail one entry longer than record_trail lets a trail grow
LongTrail == [i \in 1 .. MAX_TRAIL_POINTS + 1 |-> <<0, 0, 0, 0>>]

SnapBodies ==
    { << >>,
      <<[SnapBody(0, 0, 100, 300, FALSE) EXCEPT !.trail = LongTrail]>>,
      <<SnapBody(0, 0, 100, 300, FALSE), SnapBody(U32_MAX, 3000, 100, 300, FALSE)>>,
      <<SnapBody(1, 0, 100, 300, FALSE), SnapBody(1, 3000, 200, 300, TRUE)>>,
      <<SnapBody(0, 0, 0, -100, FALSE)>>,
      <<SnapBody(0, 0, 100, 300, FALSE), SnapBody(1, 100, 200, 300, FALSE),
        SnapBody(2, 200, 300, 300, FALSE)>> }

Snapshot(bs, speed_multiplier, theta, next_id) ==
    [ bodies           |-> bs,
      tick             |-> 0,
      dt               |-> DT_NUM,
      paused           |-> FALSE,
      speed_multiplier |-> speed_multiplier,
      next_id          |-> next_id,
      theta            |-> theta ]

\* the decodable snapshots given to import_state
Snapshots ==
    { Snapshot(bs, SCALE, DEFAULT_THETA, nid) :
        bs \in SnapBodies, nid \in {0, U32_MAX} }
    \cup
    { Snapshot(<<[SnapBody(0, 0, 100, 300, FALSE) EXCEPT !.thrust = <<500, 0, 0>>]>>,
               q[1], q[2], 1) :
        q \in {<<0, 300>>, <<900, -50>>} }
    \cup
    { [Snapshot(<<[SnapBody(0, 0, 100, 300, FALSE) EXCEPT
                     !.body_type = "spacecraft", !.thrust = <<500, 0, 0>>]>>,
                SCALE, DEFAULT_THETA, 1) EXCEPT !.dt = 0 - DT_NUM] }

RECURSIVE MaxId(_, _)
MaxId(bs, i) ==
    IF i > Len(bs) THEN 0
    ELSE LET rest == MaxId(bs, i + 1)
         IN  IF bs[i].id > rest THEN bs[i].id ELSE rest

\* import_state after the snapshot decoded, where max_id + 1 does not
\* overflow, or wraps
import_state(s, snap) ==
    LET max_id  == MaxId(snap.bodies, 1)
        next_id == IF snap.next_id <= max_id THEN (max_id + 1) % U32_MOD
                   ELSE snap.next_id
        new_state == [ bodies           |-> snap.bodies,
                       tick             |-> snap.tick,
                       dt               |-> snap.dt,
                       paused           |-> snap.paused,
                       speed_multiplier |-> snap.speed_multiplier,
                       next_id          |-> next_id,
                       theta            |-> snap.theta,
                       gpu              |-> s.gpu,
                       acc_src          |-> << >> ]
    IN  prime_accelerations(new_state)

ImportOverflows(snap) ==
    LET max_id == MaxId(snap.bodies, 1)
    IN  snap.next_id <= max_id /\ max_id = U32_MAX

\* a JSON text: whether serde_json decodes it as a SimulationState, and
\* the snapshot it then yields
Json(decodes, snap) == [decodes |-> decodes, value |-> snap]

\* the texts given to import_state: the decodable snapshots and a text
\* that does not decode
JsonInputs == {Json(TRUE, snap) : snap \in Snapshots} \cup {Json(FALSE, << >>)}

\* whether every f64 of the bodies is finite
BodiesFinite(bs) ==
    \A i \in Indices(bs) :
        /\ VIsNum(bs[i].position) /\ VIsNum(bs[i].velocity)
        /\ VIsNum(bs[i].acceleration) /\ VIsNum(bs[i].thrust)
        /\ IsNum(bs[i].mass) /\ IsNum(bs[i].radius) /\ IsNum(bs[i].fuel)
        /\ \A k \in 1 .. Len(bs[i].trail) :
              \A c \in 1 .. 4 : IsNum(bs[i].trail[k][c])

\* the export_state command: every field but gpu is written.  serde_json
\* writes a non-finite f64 as null, and null does not decode as an f64
export_state(s) ==
    Json(BodiesFinite(s.bodies) /\ IsNum(s.speed_multiplier) /\ IsNum(s.theta),
         [ bodies           |-> s.bodies,
           tick             |-> s.tick,
           dt               |-> s.dt,
           paused           |-> s.paused,
           speed_multiplier |-> s.speed_multiplier,
           next_id          |-> s.next_id,
           theta            |-> s.theta ])

\* import_state as it would be if it took the mutex and reset the state
\* before it decoded the text
import_state_resetting(s, json) ==
    IF json.decodes
    THEN [sim |-> import_state(s, json.value), result |-> Ok]
    ELSE [sim |-> [SimulationState_new EXCEPT !.gpu = s.gpu], result |-> Err]

\* the import_state command: a text that does not decode is answered with
\* Err before the mutex is taken
import_state_command(s, json) ==
    IF json.decodes
    THEN [sim |-> import_state(s, json.value), result |-> Ok]
    ELSE [sim |-> s, result |-> Err]

\* the command that leaves the state r.sim and returns r.result
Imported(r) == CommandReturning(r.sim, r.result)

\* decoding and max_id + 1 come before the mutex is taken: a text that
\* does not decode is answered whatever the mutex holds, and where
\* max_id + 1 panics the command fails and the state is as it was
ImportState ==
    /\ ncmd < MaxCmds
    /\ \E json \in JsonInputs :
          \/ /\ json.decodes => ~poisoned
             /\ Imported(import_state_command(sim, json))
          \/ /\ json.decodes
             /\ ImportOverflows(json.value)
             /\ Command(sim)

\* lib.rs: one turn of the tick thread's loop
Tick ==
    /\ ~poisoned
    /\ nticks < MaxTicks
    /\ LET r == step(sim)
       IN  /\ sim' = r.sim
           /\ collisions' = r.collisions
           /\ passes' = r.passes
    /\ nticks' = nticks + 1
    /\ returned' = Unit
    /\ UNCHANGED <<poisoned, ncmd, threads>>

Next ==
    \/ TogglePause
    \/ SetSpeed
    \/ SetTheta
    \/ LoadTestScenario
    \/ ClearSimulation
    \/ AddBody
    \/ RemoveBody
    \/ UpdateBody
    \/ UpdateBodyVelocity
    \/ SetSpacecraftThrust
    \/ LoadScenario
    \/ GenerateSystem
    \/ LoadGalaxyCollision
    \/ ImportState
    \/ PredictOrbit
    \/ Tick

Spec == Init /\ [][Next]_vars

\* The tick thread loops for ever (lib.rs 68-88) and sleeps outside the
\* mutex, so under fair scheduling it takes every turn it can take.  The
\* commands are those that write next_id or replace the whole state.
FairNext ==
    \/ AddBody
    \/ ImportState
    \/ ClearSimulation
    \/ Tick

\* a turn of the tick thread as the tick count shows it: step returns for
\* every state, so the thread can take a turn exactly when lock().unwrap()
\* does not panic, and Tick is the one action that moves the count
TickTurn ==
    /\ ~poisoned
    /\ nticks < MaxTicks
    /\ nticks' = nticks + 1

FairSpec == Init /\ [][FairNext]_vars /\ WF_nticks(TickTurn)

(***************************************************************************)
(* The same program statement by statement.  The tick thread (lib.rs       *)
(* 68-88) locks, runs step one statement at a time on the state behind the *)
(* mutex, builds the frame, unlocks at the end of the block and emits.  A  *)
(* command thread locks in the first statement of its command, runs the    *)
(* body and unlocks when the guard is dropped at the return.               *)
(***************************************************************************)
\* a lock that returns whoever holds the mutex: no mutual exclusion
CanLockAlways(m) == TRUE

\* Mutex::lock returns when nobody holds the mutex
CanLock(m) == m = "free"

\* 0.001, the least distance of a pair that compute_energies counts, in
\* thousandths
PAIR_EPS_MILLI == 1

\* the first loop of compute_energies: ke += 0.5 * mass * v2
RECURSIVE KineticFrom(_, _)
KineticFrom(bs, i) ==
    IF i > Len(bs) THEN 0
    ELSE Add(Mul(Mul(SCALE \div 2, bs[i].mass), NormSq(bs[i].velocity)),
             KineticFrom(bs, i + 1))

\* what the pair (bi, bj) takes from pe: nothing where the two are no
\* farther apart than 0.001
PairPotential(bi, bj) ==
    IF Gt(Mul(magnitude(VSub(bj.position, bi.position)), 10 * SCALE), PAIR_EPS_MILLI)
    THEN Div(Mul(Mul(G, bi.mass), bj.mass),
             magnitude(VSub(bj.position, bi.position)))
    ELSE 0

\* the double loop of compute_energies from the pair (i, j) on
RECURSIVE PotentialFrom(_, _, _)
PotentialFrom(bs, i, j) ==
    IF i > Len(bs) THEN 0
    ELSE IF j > Len(bs) THEN PotentialFrom(bs, i + 1, i + 2)
    ELSE Sub(PotentialFrom(bs, i, j + 1), PairPotential(bs[i], bs[j]))

\* SimulationState::compute_energies
compute_energies(s) ==
    [ kinetic   |-> KineticFrom(s.bodies, 1),
      potential |-> PotentialFrom(s.bodies, 1, 2),
      total     |-> Add(KineticFrom(s.bodies, 1), PotentialFrom(s.bodies, 1, 2)) ]

\* SimulationState::to_frame
to_frame(s) ==
    [ bodies           |-> s.bodies,
      tick             |-> s.tick,
      paused           |-> s.paused,
      speed_multiplier |-> s.speed_multiplier,
      energy           |-> compute_energies(s) ]

\* lib.rs 72: state_clone.lock().unwrap()
TickLock ==
    /\ tick_thread.pc = "lock"
    /\ nticks < MaxTicks
    /\ CanLock(mutex)
    /\ mutex' = "tick"
    /\ tick_thread' = [tick_thread EXCEPT !.pc = "begin"]
    /\ UNCHANGED <<sim, poisoned, collisions, passes, ncmd, nticks, returned,
                   cmd_thread>>

\* simulation.rs 93-100: the early return, sub_steps, dt, all_collisions
TickBegin ==
    /\ tick_thread.pc = "begin"
    /\ collisions' = << >>
    /\ tick_thread' =
          IF sim.paused \/ Len(sim.bodies) = 0
          THEN [tick_thread EXCEPT !.pc = "frame", !.stepped = sim]
          ELSE [tick_thread EXCEPT
                  !.pc = IF CeilU32(sim.speed_multiplier) = 0
                         THEN "end" ELSE "verlet",
                  !.k  = CeilU32(sim.speed_multiplier),
                  !.hN = (sim.dt * sim.speed_multiplier)
                           \div Gcd(sim.dt * sim.speed_multiplier,
                                    DT_DEN * SCALE * CeilU32(sim.speed_multiplier)),
                  !.hD = (DT_DEN * SCALE * CeilU32(sim.speed_multiplier))
                           \div Gcd(sim.dt * sim.speed_multiplier,
                                    DT_DEN * SCALE * CeilU32(sim.speed_multiplier))]
    /\ UNCHANGED <<sim, poisoned, passes, ncmd, nticks, returned, mutex,
                   cmd_thread>>

\* simulation.rs 103
TickVerlet ==
    /\ tick_thread.pc = "verlet"
    /\ sim' = step_verlet(sim, tick_thread.hN, tick_thread.hD)
    /\ tick_thread' = [tick_thread EXCEPT !.pc = "collide"]
    /\ UNCHANGED <<poisoned, collisions, passes, ncmd, nticks, returned, mutex,
                   cmd_thread>>

\* simulation.rs 104-105 and the loop test
TickCollide ==
    /\ tick_thread.pc = "collide"
    /\ sim' = [sim EXCEPT !.bodies = check_collisions(sim.bodies).bodies]
    /\ collisions' = collisions \o check_collisions(sim.bodies).collisions
    /\ tick_thread' = [tick_thread EXCEPT
                         !.pc = IF tick_thread.k = 1 THEN "end" ELSE "verlet",
                         !.k  = @ - 1]
    /\ UNCHANGED <<poisoned, passes, ncmd, nticks, returned, mutex, cmd_thread>>

\* simulation.rs 108-117: the trail loop, tick += 1, the return
TickEnd ==
    /\ tick_thread.pc = "end"
    /\ sim' = StepEnd([sim |-> sim, collisions |-> collisions,
                       passes |-> << >>]).sim
    /\ tick_thread' = [tick_thread EXCEPT !.pc = "frame", !.stepped = sim']
    /\ UNCHANGED <<poisoned, collisions, passes, ncmd, nticks, returned, mutex,
                   cmd_thread>>

\* lib.rs 74: sim.to_frame()
TickFrame ==
    /\ tick_thread.pc = "frame"
    /\ tick_thread' = [tick_thread EXCEPT !.pc = "unlock", !.frame = to_frame(sim)]
    /\ UNCHANGED <<sim, poisoned, collisions, passes, ncmd, nticks, returned,
                   mutex, cmd_thread>>

\* lib.rs 76: the guard is dropped at the end of the block
TickUnlock ==
    /\ tick_thread.pc = "unlock"
    /\ mutex' = "free"
    /\ tick_thread' = [tick_thread EXCEPT !.pc = "emit"]
    /\ UNCHANGED <<sim, poisoned, collisions, passes, ncmd, nticks, returned,
                   cmd_thread>>

\* lib.rs 78-87: the frame and the events are emitted, the thread sleeps
TickEmit ==
    /\ tick_thread.pc = "emit"
    /\ tick_thread' = [tick_thread EXCEPT !.pc = "lock"]
    /\ nticks' = nticks + 1
    /\ UNCHANGED <<sim, poisoned, collisions, passes, ncmd, returned, mutex,
                   cmd_thread>>

\* the first statement of a command: state.lock().unwrap()
CmdLock ==
    /\ cmd_thread.pc = "idle"
    /\ ncmd < MaxCmds
    /\ CanLock(mutex)
    /\ mutex' = "cmd"
    /\ cmd_thread' = [cmd_thread EXCEPT !.pc = "locked"]
    /\ UNCHANGED <<sim, poisoned, collisions, passes, ncmd, nticks, returned,
                   tick_thread>>

\* what the body of a command makes of the state s, for the commands
\* toggle_pause, set_speed, clear_simulation, remove_body,
\* update_body_velocity and load_test_scenario
CommandBodies(s) ==
    { [s EXCEPT !.paused = ~s.paused],
      set_speed(s, 2 * SCALE),
      clear(s),
      remove_body(s, 0),
      update_body_velocity(s, 1, <<-300, 0, 0>>),
      load_sun_earth(s) }

\* the body of the command, under the mutex
CmdBody ==
    /\ cmd_thread.pc = "locked"
    /\ \E s \in CommandBodies(sim) : sim' = s
    /\ cmd_thread' = [cmd_thread EXCEPT !.pc = "done"]
    /\ UNCHANGED <<poisoned, collisions, passes, ncmd, nticks, returned, mutex,
                   tick_thread>>

\* the return of the command drops the guard
CmdUnlock ==
    /\ cmd_thread.pc = "done"
    /\ mutex' = "free"
    /\ cmd_thread' = [cmd_thread EXCEPT !.pc = "idle"]
    /\ ncmd' = ncmd + 1
    /\ UNCHANGED <<sim, poisoned, collisions, passes, nticks, returned,
                   tick_thread>>

LockNext ==
    \/ TickLock
    \/ TickBegin
    \/ TickVerlet
    \/ TickCollide
    \/ TickEnd
    \/ TickFrame
    \/ TickUnlock
    \/ TickEmit
    \/ CmdLock
    \/ CmdBody
    \/ CmdUnlock

LockSpec == Init /\ [][LockNext]_vars

(***************************************************************************)
(* Properties.  A pass is one record of passes: one sub-step of the last   *)
(* tick.                                                                   *)
(***************************************************************************)
Passes == 1 .. Len(passes)

DistinctIds(bs) == \A i, k \in Indices(bs) : i # k => bs[i].id # bs[k].id

RECURSIVE MassSum(_, _)
MassSum(bs, i) == IF i > Len(bs) THEN 0 ELSE Add(bs[i].mass, MassSum(bs, i + 1))

\* C1: in every reachable state next_id is strictly greater than the id of
\* every live body, also at the top of the u32 range
C1_NextIdAboveEveryId ==
    \A i \in Indices(sim.bodies) : sim.next_id > sim.bodies[i].id

\* C2: in every reachable state no two live bodies share an id, also after
\* import_state of a decodable snapshot followed by add_body
C2_IdsDistinct == DistinctIds(sim.bodies)

\* C3: after every tick every body has mass > 0 and radius > 0
C3_MassAndRadiusPositive ==
    passes # << >> =>
        \A i \in Indices(passes[Len(passes)].after) :
            /\ Gt(passes[Len(passes)].after[i].mass, 0)
            /\ Gt(passes[Len(passes)].after[i].radius, 0)

\* C4: in every reachable state speed_multiplier is within [0.25, 8.0] and
\* theta is within [0.0, 2.0]
C4_SpeedAndThetaInRange ==
    /\ Ge(sim.speed_multiplier, MIN_SPEED) /\ Ge(MAX_SPEED, sim.speed_multiplier)
    /\ Ge(sim.theta, 0) /\ Ge(MAX_THETA, sim.theta)

\* C5: no step_verlet drifts or kicks with accelerations that were computed
\* from another body set (ids and masses) than the one it integrates
C5_NoStaleDrift == \A k \in Passes : ~passes[k].stale_drift

\* C6: in every reachable state every fixed body has a recorded
\* acceleration of zero
C6_FixedHaveZeroAcceleration ==
    \A i \in Indices(sim.bodies) :
        sim.bodies[i].is_fixed => sim.bodies[i].acceleration = Vec3_zero

\* C7: a tick changes neither the position nor the velocity of a body that
\* is fixed at the start of the tick (bodies are told apart by their ids,
\* so the ids at the start of the tick are distinct)
C7_TickLeavesFixedBodies ==
    (passes # << >> /\ DistinctIds(passes[1].start)) =>
        \A i \in Indices(passes[1].start) :
            passes[1].start[i].is_fixed =>
                \A k \in Indices(passes[Len(passes)].after) :
                    passes[Len(passes)].after[k].id = passes[1].start[i].id =>
                        /\ passes[Len(passes)].after[k].position
                              = passes[1].start[i].position
                        /\ passes[Len(passes)].after[k].velocity
                              = passes[1].start[i].velocity

\* C8: a collision pass conserves mass: the masses of the bodies after
\* check_collisions sum to what they summed to before it
C8_PassConservesMass ==
    \A k \in Passes :
        MassSum(passes[k].after, 1) = MassSum(passes[k].before, 1)

\* C9: within one collision pass a body marked absorbed takes part in no
\* later merge on either side, no id is the absorbed_id of two events, and
\* as many bodies are removed as events are emitted
C9_AbsorbedOnce ==
    \A k \in Passes :
        /\ \A m, n \in 1 .. Len(passes[k].merges) :
              m < n =>
                /\ passes[k].merges[n].absorbed_idx # passes[k].merges[m].absorbed_idx
                /\ passes[k].merges[n].survivor_idx # passes[k].merges[m].absorbed_idx
                /\ passes[k].collisions[n].absorbed_id
                      # passes[k].collisions[m].absorbed_id
        /\ Len(passes[k].before) - Len(passes[k].after) = Len(passes[k].collisions)

\* the momentum component c of a merge m is kept: mass times velocity of
\* the survivor just after the merge is the sum of the two momenta just
\* before it, up to the rounding of the quotient and the products
MomentumKept(m, c) ==
    LET after  == Mul(m.survivor_after.mass, m.survivor_after.velocity[c])
        before == Add(Mul(m.survivor_before.mass, m.survivor_before.velocity[c]),
                      Mul(m.absorbed_before.mass, m.absorbed_before.velocity[c]))
    IN  /\ IsNum(after)
        /\ IsNum(before)
        /\ Abs(after - before) <= Abs(m.survivor_after.mass) \div SCALE + 2

\* C10: for every CollisionEvent combined_mass is the survivor's mass plus
\* the absorbed body's mass just before the merge, and the survivor's
\* momentum just after the merge is the sum of the two momenta before it
C10_MergeKeepsMassAndMomentum ==
    \A k \in Passes :
        \A n \in 1 .. Len(passes[k].merges) :
            /\ passes[k].merges[n].event.combined_mass
                  = Add(passes[k].merges[n].survivor_before.mass,
                        passes[k].merges[n].absorbed_before.mass)
            /\ \A c \in 1 .. 3 : MomentumKept(passes[k].merges[n], c)

\* C11: in every reachable state every body's trail holds at most 500
\* entries, also after import_state of a snapshot and further ticks
C11_TrailsBounded ==
    \A i \in Indices(sim.bodies) : Len(sim.bodies[i].trail) <= MAX_TRAIL_POINTS

\* C12: predict_orbit is pure: the step of a predict_orbit command leaves
\* the live state, the mutex and the last tick's events as they were
C12_PredictOrbitIsPure ==
    [][(ncmd' = ncmd + 1 /\ returned'.kind = "path") =>
          (sim' = sim /\ poisoned' = poisoned /\ collisions' = collisions)]_vars

\* a predict_orbit command has returned a path that is not empty
C12_Witness == returned.kind = "path" /\ Len(returned.value) > 0

\* C13: while paused is true a tick leaves the whole state as it was (the
\* bodies with every field, the tick counter, the parameters) and returns
\* no collision event
C13_PausedTickChangesNothing ==
    [][(nticks' = nticks + 1 /\ sim.paused) =>
          (sim' = sim /\ collisions' = << >>)]_vars

\* a tick has run on a paused state that holds bodies
C13_Witness ==
    /\ sim.paused
    /\ nticks > 0
    /\ passes = << >>
    /\ sim.tick = 0
    /\ Len(sim.bodies) > 0

\* the state s after n ticks
RECURSIVE Ticks(_, _)
Ticks(s, n) == IF n = 0 THEN s ELSE Ticks(step(s).sim, n - 1)

\* what C14 compares: the ids, positions and velocities of the bodies
Kinematics(bs) ==
    [i \in Indices(bs) |-> <<bs[i].id, bs[i].position, bs[i].velocity>>]

\* C14: for an integer speed_multiplier k in 2..8 one tick at multiplier k
\* leaves the same bodies, positions and velocities as k ticks at
\* multiplier 1 from the same state (k = 1 is the same tick twice)
C14_TickAtKIsKTicks ==
    sim.speed_multiplier \in {k * SCALE : k \in 2 .. 8} =>
        Kinematics(step(sim).sim.bodies)
          = Kinematics(Ticks([sim EXCEPT !.speed_multiplier = SCALE],
                             sim.speed_multiplier \div SCALE).bodies)

\* a tick of two or more sub-steps has moved a body at an integer multiplier
C14_Witness ==
    /\ Len(passes) >= 2
    /\ sim.speed_multiplier = Len(passes) * SCALE
    /\ \E i \in Indices(sim.bodies) :
          /\ i <= Len(passes[1].start)
          /\ sim.bodies[i].position # passes[1].start[i].position

\* the positions of the bodies
Positions(bs) == [i \in Indices(bs) |-> bs[i].position]

\* the state of a fresh instance (run() with the same GPU probe) after it
\* imported the export of s
RoundTrip(s) ==
    import_state_command(load_sun_earth([SimulationState_new EXCEPT !.gpu = s.gpu]),
                         export_state(s)).sim

\* C15: export followed by import into a fresh instance gives a state
\* that, ticked in lockstep with the original, has the same body
\* positions at every tick
C15_RoundTripTicksAlike ==
    \A n \in 1 .. 2 :
        Positions(Ticks(RoundTrip(sim), n).bodies) = Positions(Ticks(sim, n).bodies)

\* C16: import_state of a text that does not decode returns an error and
\* leaves the live state exactly as it was, the GPU handle included: in
\* every reachable state that is what the command computes, and every step
\* that returns the error leaves the state and the mutex as they were
C16_FailedImportChangesNothing ==
    /\ [](import_state_command(sim, Json(FALSE, << >>))
            = [sim |-> sim, result |-> Err])
    /\ [][returned' = Err => (sim' = sim /\ poisoned' = poisoned)]_vars

\* an import_state has returned its error on a state that holds bodies
C16_Witness == returned = Err /\ Len(sim.bodies) > 0

(***************************************************************************)
(* The Barnes-Hut backend on its own.  The state starts with up to         *)
(* MaxTreeBodies free bodies at points of TreePoints, two or more of them  *)
(* at one point where the draw says so, and the one action is the          *)
(* Barnes-Hut branch of compute_accelerations.  The points lie far enough  *)
(* apart for the octree to part two of them within a few levels.           *)
(***************************************************************************)
MaxTreeBodies == 3

TreePoints == {<<0, 0, 0>>, <<1000, 0, 0>>, <<0, 1000, 0>>, <<-1000, -1000, 1000>>}

TreeMasses == {100, 300}

TreeBodies(n, points, masses) ==
    [i \in 1 .. n |->
        CelestialBody_new(i - 1, points[i], Vec3_zero, masses[i], 100, FALSE)]

TreeInit ==
    /\ \E n \in 2 .. MaxTreeBodies, theta \in {0, DEFAULT_THETA} :
          \E points \in [1 .. n -> TreePoints], masses \in [1 .. n -> TreeMasses] :
             sim = [SimulationState_new EXCEPT
                      !.bodies  = TreeBodies(n, points, masses),
                      !.next_id = n,
                      !.theta   = theta]
    /\ poisoned = FALSE
    /\ collisions = << >>
    /\ passes = << >>
    /\ ncmd = 0
    /\ nticks = 0
    /\ returned = Unit
    /\ mutex = "free"
    /\ tick_thread = [pc |-> "lock", k |-> 0, hN |-> 0, hD |-> 1,
                      frame |-> << >>, stepped |-> << >>]
    /\ cmd_thread = [pc |-> "idle"]

\* compute_accelerations where it takes the Barnes-Hut backend
ComputeBarnesHut ==
    /\ ncmd = 0
    /\ Command([sim EXCEPT
                  !.bodies  = compute_accelerations_barneshut(sim.bodies, sim.theta),
                  !.acc_src = Basis(sim.bodies)])

TreeSpec == TreeInit /\ [][ComputeBarnesHut]_vars

\* the positions of the tick thread at which it holds the mutex
TickCritical == {"begin", "verlet", "collide", "end", "frame", "unlock"}

\* C17: the tick and a command are never both under the mutex, so no
\* command body runs between the statements of a step or between step and
\* to_frame; the state stays as step left it until the frame is built,
\* and the frame is built from that state
C17_TickAndCommandsExclusive ==
    /\ ~(tick_thread.pc \in TickCritical /\ cmd_thread.pc \in {"locked", "done"})
    /\ tick_thread.pc \in TickCritical => mutex = "tick"
    /\ tick_thread.pc = "frame" => sim = tick_thread.stepped
    /\ tick_thread.pc \in {"unlock", "emit"} =>
          tick_thread.frame = to_frame(tick_thread.stepped)

\* the tick thread is between a step_verlet and its collision pass while a
\* command waits for the mutex after another has run
C17_Witness ==
    /\ tick_thread.pc = "collide"
    /\ cmd_thread.pc = "idle"
    /\ ncmd > 0
    /\ ncmd < MaxCmds

\* the events of the passes of one tick, one pass after the other
RECURSIVE EventsOf(_)
EventsOf(log) ==
    IF log = << >> THEN << >> ELSE Head(log).collisions \o EventsOf(Tail(log))

\* the pair a merge was found at: outer index, inner index
PairOf(m) ==
    IF m.survivor_idx < m.absorbed_idx
    THEN <<m.survivor_idx, m.absorbed_idx>>
    ELSE <<m.absorbed_idx, m.survivor_idx>>

\* pair p comes before pair q in the scan of check_collisions
ScannedBefore(p, q) == p[1] < q[1] \/ (p[1] = q[1] /\ p[2] < q[2])

\* C18: the events a tick returns are the events of its sub-steps in the
\* order of the sub-steps, and the events of one sub-step are those of its
\* overlapping pairs by ascending outer index i, then ascending inner index j
C18_EventsInDiscoveryOrder ==
    /\ collisions = EventsOf(passes)
    /\ \A n \in 1 .. Len(passes) :
          /\ Len(passes[n].collisions) = Len(passes[n].merges)
          /\ \A k \in 1 .. Len(passes[n].merges) :
                /\ passes[n].collisions[k].absorbed_id
                     = passes[n].before[passes[n].merges[k].absorbed_idx].id
                /\ passes[n].collisions[k].survivor_id
                     = passes[n].before[passes[n].merges[k].survivor_idx].id
                /\ \A l \in 1 .. k - 1 :
                      ScannedBefore(PairOf(passes[n].merges[l]),
                                    PairOf(passes[n].merges[k]))

\* a tick of two sub-steps one of which merged two pairs
C18_Witness ==
    /\ Len(passes) >= 2
    /\ \E n \in 1 .. Len(passes) : Len(passes[n].collisions) >= 2

\* C19: whatever the commands do, the tick thread takes its next turn:
\* every number of ticks below the bound is followed by the next
C19_SimulationAdvances ==
    \A n \in 0 .. MaxTicks - 1 : (nticks = n) ~> (nticks = n + 1)

\* C20: with theta = 0 the Barnes-Hut backend gives every body the
\* acceleration of the direct sum over all the other bodies, wherever the
\* bodies are
C20_TreeAtThetaZeroIsDirectSum ==
    (ncmd = 1 /\ sim.theta = 0) =>
        sim.bodies = compute_accelerations_brute(sim.bodies)

\* C21: the predict_orbit command returns min(steps, cap) positions for a
\* live body and none for an id no body has, whatever the state's paused
\* flag and speed_multiplier are
C21_PredictedPathLength ==
    \A body_id \in {1, U32_MAX}, steps \in StepsInputs :
        Len(predict_orbit_command(sim, body_id, steps).path)
          = IF find_body(sim.bodies, body_id) = 0 THEN 0
            ELSE IF steps < MAX_PREDICT_STEPS THEN steps
            ELSE MAX_PREDICT_STEPS

\* a command that asked for more than the cap has returned a path of the
\* cap's length, on a paused state
C21_Witness ==
    /\ returned.kind = "path"
    /\ Len(returned.value) = MAX_PREDICT_STEPS
    /\ sim.paused

\* C22: a body that is fixed when it is made is a star: a command that
\* adds one body to the bodies, add_body with no kind given included,
\* adds a star whenever the body it adds is fixed
C22_FixedBodiesAreMadeStars ==
    [][(/\ ncmd' = ncmd + 1
        /\ returned' = Unit
        /\ Len(sim'.bodies) = Len(sim.bodies) + 1
        /\ sim'.bodies[Len(sim'.bodies)].is_fixed)
       => sim'.bodies[Len(sim'.bodies)].body_type = "star"]_vars

\* C23: a body that is not a spacecraft has zero thrust
C23_OnlySpacecraftHaveThrust ==
    \A i \in Indices(sim.bodies) :
        sim.bodies[i].body_type # "spacecraft" => sim.bodies[i].thrust = Vec3_zero

\* C24: remove_body, update_body, update_body_velocity and
\* set_spacecraft_thrust with an id no body has, and load_scenario with a
\* name that matches no scenario, leave the whole state as it is
C24_NothingThereNothingDone ==
    /\ load_scenario(sim, "no_such_scenario") = sim
    /\ \A id \in IdInputs :
          find_body(sim.bodies, id) = 0 =>
             /\ remove_body(sim, id) = sim
             /\ \A fields \in UpdateInputs : update_body(sim, id, fields) = sim
             /\ \A v \in VelocityInputs : update_body_velocity(sim, id, v) = sim
             /\ \A th \in ThrustInputs : set_spacecraft_thrust(sim, id, th) = sim

\* a command has run on the first state, which has bodies and ids no body
\* has, and the state is as it was
C24_Witness ==
    /\ ncmd = 1
    /\ nticks = 0
    /\ returned = Unit
    /\ sim = load_sun_earth([SimulationState_new EXCEPT !.gpu = sim.gpu])
    /\ \E id \in IdInputs : find_body(sim.bodies, id) = 0

\* C25: a tick of a state that is not paused and has bodies runs at least
\* one sub-step and at most eight
C25_OneToEightSubSteps ==
    [][(nticks' = nticks + 1 /\ ~sim.paused /\ sim.bodies # << >>)
       => Len(passes') \in 1 .. 8]_vars

\* C26: in every merge the survivor is the body that had the larger mass
\* when the pair was tested, and with equal masses the body of the lower
\* index
C26_HeavierBodySurvives ==
    \A n \in 1 .. Len(passes) :
        \A k \in 1 .. Len(passes[n].merges) :
            \/ passes[n].merges[k].survivor_before.mass
                  > passes[n].merges[k].absorbed_before.mass
            \/ /\ passes[n].merges[k].survivor_before.mass
                    = passes[n].merges[k].absorbed_before.mass
               /\ passes[n].merges[k].survivor_idx < passes[n].merges[k].absorbed_idx

\* a pass in which a merge was decided by a mass that an earlier merge of
\* the pass had changed: the survivor was heavier when the pair was tested
\* than it was at the start of the pass
C26_Witness ==
    \E n \in 1 .. Len(passes) :
        \E k \in 2 .. Len(passes[n].merges) :
            passes[n].merges[k].survivor_before.mass
              > passes[n].before[passes[n].merges[k].survivor_idx].mass

\* the masses of the bodies below a node: of the body a leaf holds, and of
\* the bodies of the children otherwise
RECURSIVE SubtreeMass(_)
SubtreeMass(node) ==
    IF \A o \in 0 .. 7 : node.children[o] = None THEN node.total_mass
    ELSE Add(Add(Add(SubtreeMass(ChildOrEmpty(node, 0)), SubtreeMass(ChildOrEmpty(node, 1))),
                 Add(SubtreeMass(ChildOrEmpty(node, 2)), SubtreeMass(ChildOrEmpty(node, 3)))),
             Add(Add(SubtreeMass(ChildOrEmpty(node, 4)), SubtreeMass(ChildOrEmpty(node, 5))),
                 Add(SubtreeMass(ChildOrEmpty(node, 6)), SubtreeMass(ChildOrEmpty(node, 7)))))

\* every node of the tree has the mass of the bodies below it
RECURSIVE AggregatesHold(_)
AggregatesHold(node) ==
    /\ node.total_mass = SubtreeMass(node)
    /\ \A o \in 0 .. 7 :
          node.children[o] # None => AggregatesHold(node.children[o][1])

\* C27: in the tree that build_octree returns, the total_mass of every node
\* is the sum of the masses of the bodies in its subtree, also where a leaf
\* was subdivided; the centre of mass is the mean that these masses weigh
C27_NodesAggregateTheirSubtree ==
    ncmd = 1 =>
        /\ SubtreeMass(build_octree(sim.bodies)) = MassSum(sim.bodies, 1)
        /\ AggregatesHold(build_octree(sim.bodies))

\* whether step_verlet burns fuel of body b
Burns(b) ==
    /\ b.body_type = "spacecraft"
    /\ Gt(b.fuel, 0)
    /\ Gt(Mul(magnitude(b.thrust), 10 * SCALE), THRUST_EPS_MILLI)

\* C28: across every sub-step of a tick the fuel of each body does not
\* grow and stays at or above zero if it was there, it falls only for a
\* spacecraft with fuel left and a thrust above the threshold, and a merge
\* leaves the survivor's fuel as it was
C28_FuelOnlyBurns ==
    \A n \in 1 .. Len(passes) :
        /\ \A i \in Indices(passes[n].start) :
              /\ ~Gt(passes[n].before[i].fuel, passes[n].start[i].fuel)
              /\ Ge(passes[n].start[i].fuel, 0) => Ge(passes[n].before[i].fuel, 0)
              /\ passes[n].before[i].fuel # passes[n].start[i].fuel
                    => Burns(passes[n].start[i])
        /\ \A k \in 1 .. Len(passes[n].merges) :
              passes[n].merges[k].survivor_after.fuel
                = passes[n].merges[k].survivor_before.fuel

\* the term of a pair with its distance floored at 0.001: the division by
\* 0.001 is the product with DT_DEN = 1000
FlooredPairPotential(bi, bj) ==
    IF Gt(Mul(magnitude(VSub(bj.position, bi.position)), 10 * SCALE), PAIR_EPS_MILLI)
    THEN Div(Mul(Mul(G, bi.mass), bj.mass),
             magnitude(VSub(bj.position, bi.position)))
    ELSE MulFrac(Mul(Mul(G, bi.mass), bj.mass), DT_DEN, 1)

RECURSIVE FlooredPotentialFrom(_, _, _)
FlooredPotentialFrom(bs, i, j) ==
    IF i > Len(bs) THEN 0
    ELSE IF j > Len(bs) THEN FlooredPotentialFrom(bs, i + 1, i + 2)
    ELSE Sub(FlooredPotentialFrom(bs, i, j + 1), FlooredPairPotential(bs[i], bs[j]))

\* C29: the potential energy of a frame has a term for every unordered
\* pair of bodies, the distance of the pair floored at 0.001, so that a
\* pair at one position gives -G * m_i * m_j / 0.001
C29_PotentialCountsEveryPair ==
    to_frame(sim).energy.potential = FlooredPotentialFrom(sim.bodies, 1, 2)

====
